---- MODULE Spec2Model ----
(***************************************************************************)
(* A model of coba/learners.py: UcbTunedLearner, and CorralLearner (with   *)
(* its log-barrier solver) over two RandomLearners.                        *)
(*                                                                         *)
(* Python floats are modelled as decimal floating point numbers <<m, e>>   *)
(* standing for m * 10^e, with an 8 digit significand (m = 0, or           *)
(* 10^7 <= |m| < 10^8) and an unbounded exponent; every operation          *)
(* truncates its result to 8 digits.  The float range (about 1.8e308) is   *)
(* kept where Python raises on leaving it.                                 *)
(***************************************************************************)
EXTENDS Integers, Sequences, FiniteSets, TLC

\* ------------------------------------------------------------------------
\* Decimal floating point
\* ------------------------------------------------------------------------
MantLo == 10000000
MantHi == 100000000
Half   == 10000

Abs(n) == IF n < 0 THEN -n ELSE n
Sgn(n) == IF n < 0 THEN -1 ELSE IF n > 0 THEN 1 ELSE 0

RECURSIVE Pow10(_)
Pow10(k) == IF k <= 0 THEN 1 ELSE 10 * Pow10(k - 1)

\* the float of magnitude m >= 0, sign s and exponent e, significand cut to 8 digits
RECURSIVE NormMag(_, _, _)
NormMag(s, m, e) ==
  IF m = 0 THEN <<0, 0>>
  ELSE IF m >= MantHi THEN NormMag(s, m \div 10, e + 1)
  ELSE IF m < Half THEN NormMag(s, m * Half, e - 4)
  ELSE IF m < MantLo THEN NormMag(s, m * 10, e - 1)
  ELSE <<s * m, e>>

Norm(m, e) == NormMag(Sgn(m), Abs(m), e)

FZero == <<0, 0>>
FInt(n) == Norm(n, 0)
\* the decimal n / 10^k
FDec(n, k) == Norm(n, -k)

FNeg(a) == <<-a[1], a[2]>>
FIsZero(a) == a[1] = 0

\* a + b
FAdd(a, b) ==
  IF a[1] = 0 THEN b
  ELSE IF b[1] = 0 THEN a
  ELSE LET hi == IF a[2] >= b[2] THEN a ELSE b
           lo == IF a[2] >= b[2] THEN b ELSE a
           d  == hi[2] - lo[2]
       IN  IF d = 0 THEN Norm(hi[1] + lo[1], hi[2])
           ELSE IF d > 10 THEN hi
           ELSE Norm(hi[1] * 10 + Sgn(lo[1]) * (Abs(lo[1]) \div Pow10(d - 1)), hi[2] - 1)

FSub(a, b) == FAdd(a, FNeg(b))

\* a * b
FMul(a, b) ==
  IF a[1] = 0 \/ b[1] = 0 THEN FZero
  ELSE LET ma == Abs(a[1])  mb == Abs(b[1])
           a1 == ma \div Half  a0 == ma % Half
           b1 == mb \div Half  b0 == mb % Half
           q  == a1 * b1 * 10 + ((a1 * b0 + a0 * b1) + ((a0 * b0) \div Half)) \div 1000
       IN  NormMag(Sgn(a[1]) * Sgn(b[1]), q, a[2] + b[2] + 7)

\* the first k digits of rem / d, after the digits acc
RECURSIVE LongDiv(_, _, _, _)
LongDiv(rem, d, k, acc) ==
  IF k = 0 THEN acc
  ELSE LongDiv((rem % d) * 10, d, k - 1, acc * 10 + (rem \div d))

\* a / b, b # 0
FDiv(a, b) ==
  IF a[1] = 0 THEN FZero
  ELSE NormMag(Sgn(a[1]) * Sgn(b[1]), LongDiv(Abs(a[1]), Abs(b[1]), 9, 0), a[2] - b[2] - 8)

FLt(a, b) == FSub(a, b)[1] < 0
FLe(a, b) == FSub(a, b)[1] <= 0
FOne == FInt(1)


\* the float range: |a| is beyond the largest float (about 1.797e308), so it is inf
FIsInf(a) == a[1] # 0 /\ (a[2] + 7 > 308 \/ (a[2] + 7 = 308 /\ Abs(a[1]) > 17976931))
\* a ** 2 leaves the float range (|a| above about 1.34e154): Python raises OverflowError
FSquareOverflows(a) == a[1] # 0 /\ (a[2] + 7 > 154 \/ (a[2] + 7 = 154 /\ Abs(a[1]) > 13407807))

FMax(a, b) == IF FLt(a, b) THEN b ELSE a

RECURSIVE ISqrtIter(_, _)
ISqrtIter(n, x) == LET y == (x + n \div x) \div 2 IN IF y >= x THEN x ELSE ISqrtIter(n, y)
\* the integer square root of n >= 0
ISqrt(n) == IF n = 0 THEN 0 ELSE ISqrtIter(n, 46341)

\* math.sqrt(a), a >= 0: the integer root of the significand, then two Newton refinements
FSqrt(a) ==
  IF a[1] = 0 THEN FZero
  ELSE LET even == a[2] % 2 = 0
           mm   == IF even THEN a[1] ELSE a[1] * 10
           ee   == IF even THEN a[2] ELSE a[2] - 1
           y0   == Norm(ISqrt(mm), ee \div 2)
           y1   == FDiv(FAdd(y0, FDiv(a, y0)), FInt(2))
       IN  FDiv(FAdd(y1, FDiv(a, y1)), FInt(2))

RECURSIVE FSumFrom(_, _)
\* sum(seq), added left to right from 0
FSumFrom(seq, k) == IF k = 0 THEN FZero ELSE FAdd(FSumFrom(seq, k - 1), seq[k])
FSum(seq) == FSumFrom(seq, Len(seq))

RECURSIVE FMinOf(_, _)
FMinOf(seq, k) == IF k = 1 THEN seq[1]
                  ELSE LET r == FMinOf(seq, k - 1) IN IF FLt(seq[k], r) THEN seq[k] ELSE r
RECURSIVE FMaxOf(_, _)
FMaxOf(seq, k) == IF k = 1 THEN seq[1]
                  ELSE LET r == FMaxOf(seq, k - 1) IN IF FLt(r, seq[k]) THEN seq[k] ELSE r

RECURSIVE SortedSeq(_)
\* sorted(S) for a finite set of floats
SortedSeq(S) ==
  IF S = {} THEN <<>>
  ELSE LET lo == CHOOSE a \in S : \A b \in S : FLe(a, b)
       IN  <<lo>> \o SortedSeq(S \ {lo})

\* ------------------------------------------------------------------------
\* Parameters and inputs
\* ------------------------------------------------------------------------
MaxKey   == 2
MaxLearn == 2
NewtonCap == 40

Keys == 1 .. MaxKey
OneKey == {1}
Acts == <<"X", "Y">>
ActionLists == {<<>>, <<"X">>, <<"X", "Y">>}
CorralActionLists == {<<>>, <<"X", "Y">>}
\* rewards in [0,1] and probabilities in (0,1]
Rewards == {FInt(0), FInt(1), FDec(9999, 4)}
Probs   == {FInt(1), FDec(5, 1)}
\* a reward outside [0,1]
BadRewards == {FInt(2)}
\* the inputs of the runs over MaxKey keys
KeyActionLists == {<<>>, <<"X">>}
KeyRewards == {FInt(0), FInt(1)}
KeyProbs == {FDec(5, 1)}
\* the inputs of the runs over the horizons
HorizonRewards == {FInt(0), FInt(1)}
HorizonProbs == {FInt(1)}
\* rewards given to UcbTunedLearner.learn
UcbRewards == {FInt(0), FInt(1)}
MaxT == 3
MaxPredict == 4
\* EpsilonLearner: the constructor's epsilon, the contexts and the rewards of learn
EpsilonChoices == {FInt(0), FDec(5, 1), FInt(1)}
Contexts == {"c1", "c2"}
EpsRewards == {FInt(0), FInt(1), FDec(5, 1)}
MaxEpsLearn == 2
\* the constructor's eta and T
EtaChoices == {FInt(4)}
TChoices   == {"100", "inf"}
\* the same, with a T below 1, which the constructor takes as well
HorizonChoices == TChoices \cup {"0.5"}

\* CorralLearner([RandomLearner(), RandomLearner()], eta, T)
BaseLearners == <<"random", "random">>
M == Len(BaseLearners)
Idx == 1 .. M

\* Python's None, and a float that is nan
None == <<>>
NaN == <<>>
Range(f) == {f[i] : i \in DOMAIN f}
Bit(b) == IF b THEN 1 ELSE 0

\* ------------------------------------------------------------------------
\* CorralLearner.__init__
\* ------------------------------------------------------------------------
\* math.exp(1/math.log(T))
ExpInvLog(T) == CASE T = "100" -> FDec(12425270, 7)
                  [] T = "0.5" -> FDec(23629008, 8)
                  [] T = "inf" -> FOne
\* 1/T
GammaOf(T) == CASE T = "100" -> FDiv(FOne, FInt(100))
                [] T = "0.5" -> FDiv(FOne, FDec(5, 1))
                [] T = "inf" -> FZero
\* the same without the reciprocal
BetaNoReciprocal(T) == ExpInvLog(T)
\* 1/math.exp(1/math.log(T))
BetaOf(T) == FDiv(FOne, ExpInvLog(T))

\* ------------------------------------------------------------------------
\* CorralLearner._log_barrier_omd
\* ------------------------------------------------------------------------
\* (1/p) + eta*(loss-l), per base learner
Denoms(P, E, L, l) == [i \in Idx |-> FAdd(FDiv(FOne, P[i]), FMul(E[i], FSub(L[i], l)))]

\* f(l) divides by zero
FHasZero(P, E, L, l) == \E i \in Idx : Denoms(P, E, L, l)[i] = FZero

\* f(l): the sum of 1/denominator (1/inf is 0)
F(P, E, L, l) ==
  LET d == Denoms(P, E, L, l)
  IN  FSum([i \in Idx |-> IF FIsInf(d[i]) THEN FZero ELSE FDiv(FOne, d[i])])

\* what df(l) raises: the first term that fails decides
DFError(P, E, L, l) ==
  LET d   == Denoms(P, E, L, l)
      bad == {i \in Idx : d[i] = FZero \/ (~FIsInf(d[i]) /\ FSquareOverflows(d[i]))}
  IN  IF bad = {} THEN "none"
      ELSE LET k == CHOOSE i \in bad : \A j \in bad : i <= j
           IN  IF d[k] = FZero THEN "ZeroDivisionError" ELSE "OverflowError"

\* df(l): the sum of eta/denominator**2 (inf**2 is inf, eta/inf is 0)
DF(P, E, L, l) ==
  LET d == Denoms(P, E, L, l)
  IN  FSum([i \in Idx |-> IF FIsInf(d[i]) THEN FZero ELSE FDiv(E[i], FMul(d[i], d[i]))])

\* ((-1/p)-(eta*loss))/-eta
DenomZeros(P, E, L) ==
  [i \in Idx |-> FDiv(FSub(FDiv(FInt(-1), P[i]), FMul(E[i], L[i])), FNeg(E[i]))]

\* round(v, 4) == 1
RoundIsOne(v) == FLe(FDec(99995, 5), v) /\ FLe(v, FDec(100005, 5))

\* sorted(filter(min_loss <= z <= max_loss, set(denom_zeros + [min_loss, max_loss])))
Brackets(P, E, L) ==
  LET mn == FMinOf(L, M)
      mx == FMaxOf(L, M)
  IN  SortedSeq({z \in Range(DenomZeros(P, E, L)) \cup {mn, mx} : FLe(mn, z) /\ FLe(z, mx)})

Outcome(kind, x, e) == [kind |-> kind, x |-> x, err |-> e]

\* newtons_zero(l, r) up to its loop: None when f-1 does not change sign near the ends
NewtonsZeroEntry(P, E, L, l, r) ==
  LET a == FAdd(l, FDec(1, 4))
      b == FSub(r, FDec(1, 5))
  IN  IF FHasZero(P, E, L, a) \/ FHasZero(P, E, L, b)
      THEN Outcome("raise", FZero, "ZeroDivisionError")
      ELSE IF FMul(FSub(F(P, E, L, a), FOne), FSub(F(P, E, L, b), FOne))[1] >= 0
      THEN Outcome("none", FZero, "none")
      ELSE Outcome("loop", FDiv(FAdd(l, r), FInt(2)), "none")

RECURSIVE ScanBrackets(_, _, _, _, _)
\* for l_brack, r_brack in zip(brackets[:-1], brackets[1:]): the first bracket that is not None
ScanBrackets(P, E, L, brs, k) ==
  IF k >= Len(brs) THEN Outcome("none", FZero, "none")
  ELSE LET o == NewtonsZeroEntry(P, E, L, brs[k], brs[k + 1])
       IN  IF o.kind = "none" THEN ScanBrackets(P, E, L, brs, k + 1) ELSE o

\* the choice of lmbda up to the Newton loop:
\* "lambda" (found, x), "none" (lmbda is None), "loop" (the loop starts at x), "raise"
SolveStart(P, E, L) ==
  LET mn == FMinOf(L, M)
      mx == FMaxOf(L, M)
      dz == Range(DenomZeros(P, E, L))
  IN  IF mn = mx THEN Outcome("lambda", mn, "none")
      ELSE IF mn \notin dz /\ FHasZero(P, E, L, mn) THEN Outcome("raise", FZero, "ZeroDivisionError")
      ELSE IF mn \notin dz /\ RoundIsOne(F(P, E, L, mn)) THEN Outcome("lambda", mn, "none")
      ELSE IF mx \notin dz /\ FHasZero(P, E, L, mx) THEN Outcome("raise", FZero, "ZeroDivisionError")
      ELSE IF mx \notin dz /\ RoundIsOne(F(P, E, L, mx)) THEN Outcome("lambda", mx, "none")
      ELSE ScanBrackets(P, E, L, Brackets(P, E, L), 1)

\* one pass of the while loop from x: what it raises, or the new x and whether it is returned
NewtonIter(P, E, L, x) ==
  LET e == DFError(P, E, L, x)
      d == DF(P, E, L, x)
      y == FSub(x, FDiv(FSub(F(P, E, L, x), FOne), d))
      z == IF FIsInf(y) THEN <<Sgn(y[1]) * MantLo, 400>> ELSE y
  IN  IF e # "none" THEN Outcome("raise", x, e)
      ELSE IF d = FZero THEN Outcome("raise", x, "ZeroDivisionError")
      ELSE IF FHasZero(P, E, L, z) THEN Outcome("raise", z, "ZeroDivisionError")
      ELSE IF RoundIsOne(F(P, E, L, z)) THEN Outcome("lambda", z, "none")
      ELSE Outcome("loop", z, "none")

\* the weights with lmbda left out of the denominators
NewPsNoLambda(P, E, L, lmbda) ==
  LET d == Denoms(P, E, L, FZero)
  IN  [i \in Idx |-> FMax(IF FIsInf(d[i]) THEN FZero ELSE FDiv(FOne, d[i]), FDec(1, 5))]
\* [ max(1/((1/p) + eta*(loss-lmbda)),.00001) ... ]
NewPs(P, E, L, lmbda) ==
  LET d == Denoms(P, E, L, lmbda)
  IN  [i \in Idx |-> FMax(IF FIsInf(d[i]) THEN FZero ELSE FDiv(FOne, d[i]), FDec(1, 5))]

\* [ (1-gamma)*p + gamma*1/len(base_learners) ... ]
NewPBars(P, g) ==
  [i \in Idx |-> FAdd(FMul(FSub(FOne, g), P[i]), FDiv(FMul(g, FInt(1)), FInt(M)))]

\* the first i at which 1/p_bars[i] divides by zero (M + 1 if none): the loop stops there
RateStop(PB) ==
  IF \A i \in Idx : PB[i] # FZero THEN M + 1
  ELSE CHOOSE i \in Idx : PB[i] = FZero /\ \A j \in 1 .. i - 1 : PB[j] # FZero
\* 1/p_bars[i] > rhos[i]
Doubles(pb, rho) == FLt(rho, FDiv(FOne, pb))
NewRhos(PB, R) ==
  [i \in Idx |-> IF i < RateStop(PB) /\ Doubles(PB[i], R[i]) THEN FDiv(FInt(2), PB[i]) ELSE R[i]]
\* rates for all base learners but the last
NewEtasDropLast(PB, R, E, b) ==
  [i \in 1 .. M - 1 |-> IF i < RateStop(PB) /\ Doubles(PB[i], R[i]) THEN FMul(E[i], b) ELSE E[i]]
NewEtas(PB, R, E, b) ==
  [i \in Idx |-> IF i < RateStop(PB) /\ Doubles(PB[i], R[i]) THEN FMul(E[i], b) ELSE E[i]]

\* RandomLearner.predict
RandomPredict(actions) == [k \in 1 .. Len(actions) |-> FDiv(FInt(1), FInt(Len(actions)))]

\* actions.index(a)
IndexOf(actions, a) == CHOOSE k \in 1 .. Len(actions) : actions[k] = a /\ \A j \in 1 .. k - 1 : actions[j] # a

\* a blend of the base learners' full distributions
BlendFull(PB, actions, chosen) ==
  [k \in 1 .. Len(actions) |-> FSum([i \in Idx |-> FMul(PB[i], RandomPredict(actions)[k])])]
\* the blend returned by CorralLearner.predict
Blend(PB, actions, chosen) ==
  [k \in 1 .. Len(actions) |-> FSum([i \in Idx |-> FMul(PB[i], FInt(Bit(actions[k] = chosen[i])))])]

\* losses = [ loss/probability * int(act==action) for act in base_actions ]
Losses(reward, probability, action, acts) ==
  [i \in Idx |-> FMul(FDiv(FSub(FOne, reward), probability), FInt(Bit(acts[i] = action)))]

\* a feed that hands every base learner the first learner's action and probability
FeedFirst(acts, losses, preds) ==
  [i \in Idx |-> [learner |-> i, action |-> acts[1], reward |-> FSub(FOne, losses[i]), probability |-> preds[1]]]
\* the calls learner.learn(key, context, action, 1-L, P) made by CorralLearner.learn
Feed(acts, losses, preds) ==
  [i \in Idx |-> [learner |-> i, action |-> acts[i], reward |-> FSub(FOne, losses[i]), probability |-> preds[i]]]

\* a lookup that answers a missing key with a default record
LookupDefault(map, key) ==
  [found |-> TRUE, val |-> IF key \in DOMAIN map THEN map[key] ELSE [i \in Idx |-> "X"]]
\* dict.pop(key): the record under key, if there is one (KeyError otherwise)
Lookup(map, key) ==
  IF key \in DOMAIN map THEN [found |-> TRUE, val |-> map[key]]
  ELSE [found |-> FALSE, val |-> <<>>]

EmptyMap == [k \in {} |-> 0]
Put(map, key, val) == [k \in DOMAIN map \cup {key} |-> IF k = key THEN val ELSE map[k]]
\* a pop that leaves the entry in the map
PopKeep(map, key) == map
Pop(map, key) == [k \in DOMAIN map \ {key} |-> map[k]]


\* ------------------------------------------------------------------------
\* UcbTunedLearner
\* ------------------------------------------------------------------------
VARIABLES
  init_a, t, s, m, v,   \* UcbTunedLearner._init_a, _t, _s, _m, _v
  uret, uerr,           \* what the last predict returned; the exception the last call raised
  ucall,                \* the last call
  usedcb,               \* the last predict scored the actions (the else branch)
  upred, ulists,        \* the number of predict calls so far, and their action lists
  ulearned              \* per action, the number and the sum of the rewards learn was given

uvars == <<init_a, t, s, m, v, uret, uerr, ucall, usedcb, upred, ulists, ulearned>>

\* math.log(n) for the n the model reaches
Ln(n) == CASE n = 1 -> FZero
           [] n = 2 -> FDec(69314718, 8)
           [] n = 3 -> FDec(10986123, 7)
           [] n = 4 -> FDec(13862944, 7)
           [] n = 5 -> FDec(16094379, 7)
           [] n = 6 -> FDec(17917595, 7)

\* OnlineVariance: count, mean, M2; the variance is M2/(count-1) from the second value on
NewVariance == [count |-> 0, mean |-> FZero, M2 |-> FZero]
VarianceUpdate(ov, value) ==
  LET count  == ov.count + 1
      delta  == FSub(value, ov.mean)
      mean   == FAdd(ov.mean, FDiv(delta, FInt(count)))
      delta2 == FSub(value, mean)
  IN  [count |-> count, mean |-> mean, M2 |-> FAdd(ov.M2, FMul(delta, delta2))]
VarianceDefined(ov) == ov.count > 1
Variance(ov) == FDiv(ov.M2, FInt(ov.count - 1))

\* _Var_R_UCB(action): var + math.sqrt(2*ln(t)/s); nan while the variance is nan
VarRUCB(tt, sa, ov) ==
  IF VarianceDefined(ov)
  THEN FAdd(Variance(ov), FSqrt(FDiv(FMul(FInt(2), Ln(tt)), FInt(sa))))
  ELSE NaN

\* min(1/4, V_j): the first argument unless the second is smaller (never so for nan)
MinQuarter(V) == IF V # NaN /\ FLt(V, FDiv(FInt(1), FInt(4))) THEN V ELSE FDiv(FInt(1), FInt(4))

\* _Avg_R_UCB(action): math.sqrt(ln(n)/n_j * min(1/4,V_j))
AvgRUCB(tt, sa, ov) == FSqrt(FMul(FDiv(Ln(tt), FInt(sa)), MinQuarter(VarRUCB(tt, sa, ov))))

\* a warm-up that lasts one call longer
InWarmupOneMore(ia, n) == ia <= n
\* self._init_a < len(actions)
InWarmup(ia, n) == ia < n

OneHot(k, n) == [i \in 1 .. n |-> FInt(Bit(i = k))]

\* a predict that scores every action it is given
ScoredAll(actions) == Range(actions)
\* the actions predict scores: those with "a in self._m"
Scored(actions) == {a \in Range(actions) : a \in DOMAIN m}

\* what scoring raises: math.log(0) is a ValueError, a division by s[a] = 0 a ZeroDivisionError
ScoreError(actions) ==
  IF Scored(actions) = {} THEN "none"
  ELSE IF t = 0 THEN "ValueError"
  ELSE IF \E a \in Scored(actions) : s[a] = 0 THEN "ZeroDivisionError"
  ELSE "none"

\* values: m[a] + _Avg_R_UCB(a) if a in m else None
UcbValues(actions) ==
  [i \in 1 .. Len(actions) |->
     IF actions[i] \in Scored(actions)
     THEN FAdd(m[actions[i]], AvgRUCB(t, s[actions[i]], v[actions[i]]))
     ELSE None]

\* [ int(i in max_indexes)/len(max_indexes) ... ] for the indexes of the largest value
SplitOverMax(values) ==
  LET some   == {i \in DOMAIN values : values[i] # None}
      maxval == IF some = {} THEN None
                ELSE values[CHOOSE i \in some : \A j \in some : ~FLt(values[i], values[j])]
      maxidx == {i \in DOMAIN values : values[i] = maxval}
  IN  [i \in DOMAIN values |-> FDiv(FInt(Bit(i \in maxidx)), FInt(Cardinality(maxidx)))]

InitUcb ==
  /\ init_a = 0 /\ t = 0
  /\ s = [a \in Range(Acts) |-> 0]
  /\ m = [a \in {} |-> FZero]
  /\ v = [a \in Range(Acts) |-> NewVariance]
  /\ uret = <<>> /\ uerr = "none"
  /\ ucall = [op |-> "init", n |-> 0, reward |-> FZero, actions |-> <<>>]
  /\ usedcb = FALSE /\ upred = 0 /\ ulists = {}
  /\ ulearned = [a \in Range(Acts) |-> [count |-> 0, sum |-> FZero]]

\* UcbTunedLearner.predict(key, context, actions)
UcbPredict(actions) ==
  /\ upred < MaxPredict
  /\ upred' = upred + 1
  /\ ulists' = ulists \cup {actions}
  /\ ucall' = [op |-> "predict", n |-> Len(actions), reward |-> FZero, actions |-> actions]
  /\ UNCHANGED <<t, s, m, v, ulearned>>
  /\ IF InWarmup(init_a, Len(actions))
     THEN /\ init_a' = init_a + 1
          /\ uret' = OneHot(init_a + 1, Len(actions))
          /\ uerr' = "none"
          /\ usedcb' = FALSE
     ELSE /\ init_a' = init_a
          /\ usedcb' = TRUE
          /\ IF actions = <<>>
             THEN uret' = <<>> /\ uerr' = "ValueError"
             ELSE IF ScoreError(actions) # "none"
             THEN uret' = <<>> /\ uerr' = ScoreError(actions)
             ELSE uret' = SplitOverMax(UcbValues(actions)) /\ uerr' = "none"

\* UcbTunedLearner.learn(key, context, action, reward, probability)
UcbLearn(action, reward) ==
  /\ t < MaxT
  /\ ucall' = [op |-> "learn", n |-> 0, reward |-> reward, actions |-> <<>>]
  /\ m' = IF action \notin DOMAIN m
          THEN Put(m, action, reward)
          ELSE Put(m, action,
                   FAdd(FMul(FSub(FInt(1), FDiv(FInt(1), FInt(s[action]))), m[action]),
                        FMul(FDiv(FInt(1), FInt(s[action])), reward)))
  /\ t' = t + 1
  /\ s' = [s EXCEPT ![action] = @ + 1]
  /\ v' = [v EXCEPT ![action] = VarianceUpdate(@, reward)]
  /\ uret' = <<>> /\ uerr' = "none"
  /\ ulearned' = [ulearned EXCEPT ![action] = [count |-> @.count + 1, sum |-> FAdd(@.sum, reward)]]
  /\ UNCHANGED <<init_a, usedcb, upred, ulists>>

\* ------------------------------------------------------------------------
\* RandomLearner: it has no fields
\* ------------------------------------------------------------------------
VARIABLES
  rret, rerr,   \* what the last predict returned; the exception the last call raised
  rcall         \* the last call and its arguments

rvars == <<rret, rerr, rcall>>

InitRandom ==
  /\ rret = <<>> /\ rerr = "none"
  /\ rcall = [op |-> "init", actions |-> <<>>, action |-> "None", reward |-> FZero]

\* RandomLearner.predict(key, context, actions)
RandomLearnerPredict(actions) ==
  /\ rcall' = [op |-> "predict", actions |-> actions, action |-> "None", reward |-> FZero]
  /\ IF actions = <<>>
     THEN rret' = <<>> /\ rerr' = "ZeroDivisionError"
     ELSE rret' = RandomPredict(actions) /\ rerr' = "none"

\* RandomLearner.learn(key, context, action, reward, probability): pass
RandomLearnerLearn(action, reward) ==
  /\ rcall' = [op |-> "learn", actions |-> <<>>, action |-> action, reward |-> reward]
  /\ rret' = <<>> /\ rerr' = "none"

\* ------------------------------------------------------------------------
\* EpsilonLearner
\* ------------------------------------------------------------------------
VARIABLES
  epsilon, include_context,   \* EpsilonLearner._epsilon, _include_context
  Q, N,                       \* EpsilonLearner._Q, _N: the entries the dicts hold
  eret, eerr,                 \* what the last predict returned; the exception the last call raised
  ecall,                      \* the last call and its arguments
  eseen,                      \* the keys learn was called for
  nelearn                     \* the number of learn calls

evars == <<epsilon, include_context, Q, N, eret, eerr, ecall, eseen, nelearn>>

\* _key(context, action)
EpsKey(context, action) == IF include_context THEN <<context, action>> ELSE <<"None", action>>

\* d[key] of a defaultdict(int): the entry, 0 if there is none
DefaultGet(d, key) == IF key \in DOMAIN d THEN d[key] ELSE FZero
\* the dict after d[key] was read for every key of keys: missing entries are now 0
DefaultTouch(d, keys) == [k \in DOMAIN d \cup keys |-> IF k \in DOMAIN d THEN d[k] ELSE FZero]

\* [p1+p2 ...]: epsilon spread over all actions, 1-epsilon over the indexes of the maximum
EpsMix(values, eps) ==
  LET n      == Len(values)
      split  == SplitOverMax(values)
  IN  [i \in 1 .. n |-> FAdd(FMul(FDiv(FInt(1), FInt(n)), eps),
                             FMul(split[i], FSub(FInt(1), eps)))]

InitEpsWith(epsilons, flags) ==
  /\ epsilon \in epsilons
  /\ include_context \in flags
  /\ Q = EmptyMap /\ N = EmptyMap
  /\ eret = <<>> /\ eerr = "none"
  /\ ecall = [op |-> "init", context |-> "None", actions |-> <<>>, action |-> "None", reward |-> FZero]
  /\ eseen = {} /\ nelearn = 0

\* EpsilonLearner.predict(key, context, actions)
EpsPredict(context, actions) ==
  /\ ecall' = [op |-> "predict", context |-> context, actions |-> actions,
               action |-> "None", reward |-> FZero]
  /\ UNCHANGED <<epsilon, include_context, N, eseen, nelearn>>
  /\ IF actions = <<>>
     THEN /\ eerr' = "ValueError" /\ eret' = <<>> /\ Q' = Q
     ELSE LET keys   == [i \in 1 .. Len(actions) |-> EpsKey(context, actions[i])]
              values == [i \in 1 .. Len(actions) |-> DefaultGet(Q, keys[i])]
          IN  /\ Q' = DefaultTouch(Q, Range(keys))
              /\ eret' = EpsMix(values, epsilon)
              /\ eerr' = "none"

\* EpsilonLearner.learn(key, context, action, reward, probability)
EpsLearn(context, action, reward) ==
  /\ nelearn < MaxEpsLearn
  /\ nelearn' = nelearn + 1
  /\ ecall' = [op |-> "learn", context |-> context, actions |-> <<>>,
               action |-> action, reward |-> reward]
  /\ LET sa_key == EpsKey(context, action)
         alpha  == FDiv(FInt(1), FAdd(DefaultGet(N, sa_key), FInt(1)))
         old_Q  == DefaultGet(Q, sa_key)
     IN  /\ Q' = Put(Q, sa_key, FAdd(FMul(FSub(FInt(1), alpha), old_Q), FMul(alpha, reward)))
         /\ N' = Put(N, sa_key, FAdd(DefaultGet(N, sa_key), FInt(1)))
         /\ eseen' = eseen \cup {sa_key}
  /\ eret' = <<>> /\ eerr' = "none"
  /\ UNCHANGED <<epsilon, include_context>>

\* ------------------------------------------------------------------------
\* CorralLearner
\* ------------------------------------------------------------------------
VARIABLES
  ps, p_bars, etas, rhos,        \* CorralLearner._ps, _p_bars, _etas, _rhos
  gamma, beta, eta_init,         \* CorralLearner._gamma, _beta, _eta_init
  base_actions, base_predicts,   \* CorralLearner._base_actions, _base_predicts
  pc,                            \* "idle", or "newton" inside newtons_zero's loop
  nx, ni, nlosses,               \* x, i and losses of the running loop
  lmbda,                         \* lmbda at the end of the last solve: None or a float
  err,                           \* the exception the last call raised, or "none"
  ret,                           \* what the last predict returned
  call,                          \* the last call and its arguments
  fed, nfed,                     \* the base learners' learn calls of the last learn; their count
  asked,                         \* the base learners whose predict the last predict called, in order
  nlearn,                        \* the learn calls that found their key
  pending                        \* the keys predicted and not yet taken by learn

cvars == <<ps, p_bars, etas, rhos, gamma, beta, eta_init, base_actions, base_predicts,
           pc, nx, ni, nlosses, lmbda, err, ret, call, fed, nfed, asked, nlearn, pending>>
vars == <<cvars, uvars, evars, rvars>>

InitCorralWith(horizons) ==
  /\ \E eta \in EtaChoices, T \in horizons :
        /\ eta_init = eta
        /\ etas = [i \in Idx |-> eta]
        /\ gamma = GammaOf(T)
        /\ beta = BetaOf(T)
  /\ rhos = [i \in Idx |-> FInt(2 * M)]
  /\ ps = [i \in Idx |-> FDiv(FInt(1), FInt(M))]
  /\ p_bars = [i \in Idx |-> FDiv(FInt(1), FInt(M))]
  /\ base_actions = EmptyMap
  /\ base_predicts = EmptyMap
  /\ pc = "idle" /\ nx = FZero /\ ni = 0 /\ nlosses = <<>>
  /\ lmbda = None /\ err = "none" /\ ret = <<>>
  /\ call = [op |-> "init", key |-> 0, n |-> 0, actions |-> <<>>]
  /\ fed = <<>> /\ nfed = 0 /\ nlearn = 0 /\ pending = {}
  /\ asked = <<>>

InitCorral == InitCorralWith(TChoices)

\* self._ps = ...; self._p_bars = ...; the rho/eta loop, for the lmbda found
SetWeights(L, x) ==
  IF FHasZero(ps, etas, L, x)
  THEN /\ err' = "ZeroDivisionError"
       /\ lmbda' = x
       /\ UNCHANGED <<ps, p_bars, rhos, etas>>
  ELSE LET np  == NewPs(ps, etas, L, x)
           npb == NewPBars(np, gamma)
       IN  /\ ps' = np
           /\ p_bars' = npb
           /\ rhos' = NewRhos(npb, rhos)
           /\ etas' = NewEtas(npb, rhos, etas, beta)
           /\ lmbda' = x
           /\ err' = IF RateStop(npb) <= M THEN "ZeroDivisionError" ELSE "none"

\* CorralLearner.predict(key, context, actions)
CorralPredict(key, actions) ==
  /\ pc = "idle"
  /\ UNCHANGED <<uvars, evars, rvars>>
  /\ call' = [op |-> "predict", key |-> key, n |-> Len(actions), actions |-> actions]
  /\ UNCHANGED <<ps, p_bars, etas, rhos, gamma, beta, eta_init, pc, nx, ni, nlosses, lmbda, fed, nfed, nlearn>>
  /\ IF actions = <<>>
     THEN /\ err' = "ZeroDivisionError"
          /\ ret' = <<>>
          /\ asked' = <<1>>
          /\ UNCHANGED <<base_actions, base_predicts, pending>>
     ELSE \E chosen \in [Idx -> Range(actions)] :
            LET predicts == [i \in Idx |-> RandomPredict(actions)]
            IN  /\ asked' = [i \in Idx |-> i]
                /\ base_actions' = Put(base_actions, key, chosen)
                /\ base_predicts' = Put(base_predicts, key,
                                        [i \in Idx |-> predicts[i][IndexOf(actions, chosen[i])]])
                /\ ret' = Blend(p_bars, actions, chosen)
                /\ err' = "none"
                /\ pending' = pending \cup {key}

\* CorralLearner.learn(key, context, action, reward, probability), up to the Newton loop
CorralLearn(key, action, reward, probability) ==
  /\ pc = "idle"
  /\ UNCHANGED <<uvars, evars, rvars>>
  /\ call' = [op |-> "learn", key |-> key, n |-> 0, actions |-> <<>>]
  /\ ret' = <<>>
  /\ UNCHANGED <<gamma, beta, eta_init, asked>>
  /\ IF ~Lookup(base_actions, key).found \/ ~Lookup(base_predicts, key).found
     THEN /\ err' = "KeyError"
          /\ lmbda' = None /\ ni' = 0
          /\ UNCHANGED <<ps, p_bars, etas, rhos, base_actions, base_predicts, pc, nx,
                         nlosses, fed, nfed, nlearn, pending>>
     ELSE LET acts   == Lookup(base_actions, key).val
              preds  == Lookup(base_predicts, key).val
              losses == Losses(reward, probability, action, acts)
              st     == SolveStart(ps, etas, losses)
          IN  /\ nlearn < MaxLearn
              /\ nlearn' = nlearn + 1
              /\ base_actions' = Pop(base_actions, key)
              /\ base_predicts' = Pop(base_predicts, key)
              /\ pending' = pending \ {key}
              /\ fed' = Feed(acts, losses, preds)
              /\ nfed' = nfed + M
              /\ CASE st.kind = "lambda" ->
                        /\ SetWeights(losses, st.x)
                        /\ ni' = 0
                        /\ UNCHANGED <<pc, nx, nlosses>>
                   [] st.kind = "none" ->
                        /\ err' = "TypeError"
                        /\ lmbda' = None
                        /\ ni' = 0
                        /\ UNCHANGED <<ps, p_bars, etas, rhos, pc, nx, nlosses>>
                   [] st.kind = "raise" ->
                        /\ err' = st.err
                        /\ lmbda' = None
                        /\ ni' = 0
                        /\ UNCHANGED <<ps, p_bars, etas, rhos, pc, nx, nlosses>>
                   [] st.kind = "loop" ->
                        /\ pc' = "newton" /\ nx' = st.x /\ ni' = 0 /\ nlosses' = losses
                        /\ err' = "none"
                        /\ lmbda' = None
                        /\ UNCHANGED <<ps, p_bars, etas, rhos>>

\* one pass of the while loop of newtons_zero, and the rest of learn when it returns
NewtonStep ==
  /\ pc = "newton"
  /\ UNCHANGED <<uvars, evars, rvars>>
  /\ ni < NewtonCap
  /\ UNCHANGED <<gamma, beta, eta_init, base_actions, base_predicts, ret, call, fed, nfed, asked,
               nlearn, pending, nlosses>>
  /\ LET o == NewtonIter(ps, etas, nlosses, nx)
     IN  /\ ni' = ni + 1
         /\ nx' = o.x
         /\ CASE o.kind = "lambda" ->
                   /\ SetWeights(nlosses, o.x)
                   /\ pc' = "idle"
              [] o.kind = "raise" ->
                   /\ err' = o.err
                   /\ pc' = "idle"
                   /\ UNCHANGED <<ps, p_bars, etas, rhos, lmbda>>
              [] o.kind = "loop" ->
                   /\ UNCHANGED <<ps, p_bars, etas, rhos, lmbda, err, pc>>

NextCorral ==
  \/ \E key \in OneKey, actions \in CorralActionLists : CorralPredict(key, actions)
  \/ \E key \in OneKey, action \in Range(Acts), reward \in Rewards, probability \in Probs :
        CorralLearn(key, action, reward, probability)
  \/ NewtonStep

\* the same over MaxKey keys, with one action, so that all losses of a learn are equal
NextKeys ==
  \/ \E key \in Keys, actions \in KeyActionLists : CorralPredict(key, actions)
  \/ \E key \in Keys, action \in Range(Acts), reward \in KeyRewards, probability \in KeyProbs :
        CorralLearn(key, action, reward, probability)

NextHorizon ==
  \/ \E key \in OneKey, actions \in CorralActionLists : CorralPredict(key, actions)
  \/ \E key \in OneKey, action \in Range(Acts), reward \in HorizonRewards,
         probability \in HorizonProbs :
        CorralLearn(key, action, reward, probability)
  \/ NewtonStep

NextUcb ==
  \/ \E actions \in ActionLists : UcbPredict(actions) /\ UNCHANGED <<cvars, evars, rvars>>
  \/ \E action \in Range(Acts), reward \in UcbRewards : UcbLearn(action, reward) /\ UNCHANGED <<cvars, evars, rvars>>

NextUcbWide ==
  \/ \E actions \in ActionLists : UcbPredict(actions) /\ UNCHANGED <<cvars, evars, rvars>>
  \/ \E action \in Range(Acts), reward \in UcbRewards \cup BadRewards :
        UcbLearn(action, reward) /\ UNCHANGED <<cvars, evars, rvars>>

NextEps ==
  \/ \E context \in Contexts, actions \in ActionLists :
        EpsPredict(context, actions) /\ UNCHANGED <<cvars, uvars, rvars>>
  \/ \E context \in Contexts, action \in Range(Acts), reward \in EpsRewards :
        EpsLearn(context, action, reward) /\ UNCHANGED <<cvars, uvars, rvars>>

\* a CorralLearner and, beside it, a RandomLearner called on its own
NextFrame ==
  \/ NextHorizon
  \/ \E actions \in CorralActionLists :
        RandomLearnerPredict(actions) /\ UNCHANGED <<cvars, uvars, evars>>
  \/ \E action \in Range(Acts), reward \in HorizonRewards :
        RandomLearnerLearn(action, reward) /\ UNCHANGED <<cvars, uvars, evars>>

InitEps == InitEpsWith({FZero}, {FALSE})
Init == InitCorral /\ InitUcb /\ InitEps /\ InitRandom
InitHorizon == InitCorralWith(HorizonChoices) /\ InitUcb /\ InitEps /\ InitRandom
InitEpsilons == InitCorralWith({"inf"}) /\ InitUcb /\ InitEpsWith(EpsilonChoices, BOOLEAN) /\ InitRandom
InitFrame == InitCorralWith({"100"}) /\ InitUcb /\ InitEps /\ InitRandom
Next == NextCorral
Spec == Init /\ [][Next]_vars
SpecHorizon == InitHorizon /\ [][NextHorizon]_vars
SpecKeys == Init /\ [][NextKeys]_vars
SpecUcb == Init /\ [][NextUcb]_vars
SpecUcbWide == Init /\ [][NextUcbWide]_vars
SpecEps == InitEpsilons /\ [][NextEps]_vars
SpecFrame == InitFrame /\ [][NextFrame]_vars

\* ------------------------------------------------------------------------
\* Properties
\* ------------------------------------------------------------------------
\* the floating tolerance of a sum
Tol == FDec(1, 6)
Near(a, b) == FLe(FSub(a, b), Tol) /\ FLe(FSub(b, a), Tol)
InUnit(a) == FLe(FZero, a) /\ FLe(a, FOne)

\* C1: the key sets of base_actions and base_predicts are equal, and equal to the set
\* of keys predicted and not yet learned; both maps are empty when no key is pending
C1_KeyMapsArePending ==
  /\ DOMAIN base_actions = DOMAIN base_predicts
  /\ DOMAIN base_actions = pending
  /\ (pending = {} => base_actions = EmptyMap /\ base_predicts = EmptyMap)
\* a learn took one key while another key is still pending
C1_Witness ==
  /\ call.op = "learn" /\ err = "none" /\ nlearn > 0
  /\ pending # {} /\ call.key \notin pending

\* C2: learn with a key that has no stored record raises KeyError, and feeds no base
\* learner and changes none of p, p_bar, eta, rho and the per-key maps
C2_UnknownKeyFailsFirst ==
  [][(pc = "idle" /\ call'.op = "learn" /\ call'.key \notin DOMAIN base_actions)
       => (/\ err' = "KeyError"
           /\ UNCHANGED <<ps, p_bars, etas, rhos, base_actions, base_predicts, fed, nfed>>)]_vars
\* a second learn for a key whose first learn went through
C2_Witness ==
  /\ call.op = "learn" /\ err = "KeyError"
  /\ nlearn > 0 /\ nfed > 0 /\ call.key \notin pending

\* C3: the smoothed weights p_bar sum to 1 in every reachable state
C3_PBarsSumToOne == Near(FSum(p_bars), FOne)

\* C4: with a horizon T > 1 (gamma = 1/T < 1), no step decreases a rho_i or increases
\* an eta_i
C4_RatesMonotoneAboveOne ==
  [][FLt(gamma, FOne)
       => \A i \in Idx : FLe(rhos[i], rhos'[i]) /\ FLe(etas'[i], etas[i])]_vars
\* a learn with T > 1 has raised a rho_i and lowered its eta_i
C4_Witness ==
  /\ FLt(gamma, FOne)
  /\ \E i \in Idx : FLt(FInt(2 * M), rhos[i]) /\ FLt(etas[i], eta_init)
\* C4 as stated, for every T the constructor takes: no step decreases a rho_i or
\* increases an eta_i
C4_RatesMonotone ==
  [][\A i \in Idx : FLe(rhos[i], rhos'[i]) /\ FLe(etas'[i], etas[i])]_vars

\* C5: a learn whose Newton-Raphson loop ran ends with a root or with a report of
\* non-convergence
C5_NewtonEndsWithRootOrReport ==
  (call.op = "learn" /\ pc = "idle" /\ ni > 0) => err \in {"none", "OptimizationDivergence"}

\* C6: a learn whose search ends with lmbda undefined raises OptimizationDivergence
C6_NoRootIsDivergence ==
  (/\ call.op = "learn" /\ pc = "idle" /\ lmbda = None
   /\ err \notin {"KeyError", "ZeroDivisionError", "OverflowError"})
    => err = "OptimizationDivergence"

\* C7: every reward passed to a base learner's learn lies in [0,1]
C7_FedRewardsInUnit == \A i \in DOMAIN fed : InUnit(fed[i].reward)

\* C8: with one fixed non-empty action list of length n, the k-th predict returns the
\* one-hot distribution on the k-th action without scoring for k <= n, and scores the
\* actions from call n + 1 on
C8_WarmupInOrder ==
  \A actions \in ActionLists :
    (ucall.op = "predict" /\ ulists = {actions} /\ Len(actions) > 0)
      => /\ upred <= Len(actions)
              => uret = OneHot(upred, Len(actions)) /\ ~usedcb /\ uerr = "none"
         /\ upred > Len(actions) => usedcb
\* the third predict on a list of two actions, after a learn, scored the actions
C8_Witness ==
  /\ ucall.op = "predict" /\ ulists = {<<"X", "Y">>}
  /\ upred = 3 /\ usedcb /\ t > 0 /\ init_a = 2

\* the Python exceptions that report a bad argument
InvalidArgument == {"ValueError", "TypeError"}
\* C9: UcbTunedLearner.learn with a reward outside [0,1], and predict with no
\* actions, raise an error that reports the bad argument
C9_BadArgumentRejected ==
  /\ (ucall.op = "learn" /\ ~InUnit(ucall.reward)) => uerr \in InvalidArgument
  /\ (ucall.op = "predict" /\ ucall.n = 0) => uerr \in InvalidArgument

\* C10: CorralLearner.predict on a non-empty action list returns one entry per
\* action, every entry >= 0, the entries summing to 1
C10_PredictIsDistribution ==
  (call.op = "predict" /\ call.n > 0)
    => /\ err = "none"
       /\ Len(ret) = call.n
       /\ \A k \in DOMAIN ret : FLe(FZero, ret[k])
       /\ Near(FSum(ret), FOne)

\* a is b up to the rounding of a few float operations
NearRel(a, b) == FLe(FSub(a, b), FMul(Tol, <<Abs(b[1]), b[2]>>))
                 /\ FLe(FSub(b, a), FMul(Tol, <<Abs(b[1]), b[2]>>))

\* C11: a learn whose base learners all have the same loss takes lmbda equal to that
\* loss, raises nothing, and leaves every p_i as it was (up to float rounding)
C11_EqualLossesKeepP ==
  [][(/\ pc = "idle" /\ call'.op = "learn" /\ err' # "KeyError"
      /\ \A i, j \in Idx : fed'[i].reward = fed'[j].reward)
       => (/\ pc' = "idle" /\ err' = "none"
           /\ lmbda' # None
           /\ FSub(FOne, lmbda') = fed'[1].reward
           /\ \A i \in Idx : NearRel(ps'[i], ps[i]))]_vars
\* a learn with one nonzero loss for all base learners, on weights that are not uniform
C11_Witness ==
  /\ call.op = "learn" /\ err = "none" /\ pc = "idle" /\ ni = 0
  /\ \A i, j \in Idx : fed[i].reward = fed[j].reward
  /\ lmbda # None /\ lmbda # FZero
  /\ ps[1] # ps[2]

\* the indexes of the actions of the last predict that learn has seen, and among them
\* (among all, if there is none) those of the largest estimate
SeenIndexes ==
  {i \in DOMAIN ecall.actions : EpsKey(ecall.context, ecall.actions[i]) \in eseen}
GreedyIndexes ==
  IF SeenIndexes = {} THEN DOMAIN ecall.actions
  ELSE {i \in SeenIndexes :
          \A j \in SeenIndexes : ~FLt(Q[EpsKey(ecall.context, ecall.actions[i])],
                                       Q[EpsKey(ecall.context, ecall.actions[j])])}
\* C12: EpsilonLearner.predict gives each action epsilon/|actions|, plus
\* (1-epsilon)/|greedy set| if it has the largest estimate among the observed actions
\* (among all actions only when none was observed)
C12_GreedyOverObserved ==
  (ecall.op = "predict" /\ ecall.actions # <<>>)
    => /\ eerr = "none"
       /\ Len(eret) = Len(ecall.actions)
       /\ \A i \in DOMAIN ecall.actions :
            Near(eret[i],
                 FAdd(FDiv(epsilon, FInt(Len(ecall.actions))),
                      IF i \in GreedyIndexes
                      THEN FDiv(FSub(FOne, epsilon), FInt(Cardinality(GreedyIndexes)))
                      ELSE FZero))

\* C13: CorralLearner.predict returns for each candidate action the sum of p_bar_i over
\* the base learners whose sampled action is that candidate, and what it stores under
\* the key are those sampled actions and the probabilities their learners gave them
C13_BlendOfSampledChoices ==
  (call.op = "predict" /\ err = "none")
    => /\ call.key \in DOMAIN base_actions
       /\ call.key \in DOMAIN base_predicts
       /\ Len(ret) = Len(call.actions)
       /\ \A k \in DOMAIN call.actions :
            ret[k] = FSum([i \in Idx |-> IF base_actions[call.key][i] = call.actions[k]
                                         THEN p_bars[i] ELSE FZero])
       /\ \A i \in Idx :
            /\ base_actions[call.key][i] \in Range(call.actions)
            /\ base_predicts[call.key][i] = FDiv(FOne, FInt(Len(call.actions)))
C13_Witness ==
  /\ call.op = "predict" /\ err = "none"
  /\ p_bars[1] # p_bars[2]
  /\ base_actions[call.key][1] = base_actions[call.key][2]
  /\ \E k \in DOMAIN ret : ret[k] = FZero

\* C14: for every action learn was called for, m[a] is the arithmetic mean of the rewards
\* learn was given for it, s[a] is their number, and t is the number of all learn calls
C14_MeanCountTotal ==
  /\ \A a \in Range(Acts) :
       ulearned[a].count >= 1
         => /\ a \in DOMAIN m
            /\ Near(m[a], FDiv(ulearned[a].sum, FInt(ulearned[a].count)))
            /\ s[a] = ulearned[a].count
  /\ t = ulearned["X"].count + ulearned["Y"].count

\* C15: an action has a stored mean exactly when s[a] >= 1, t is the sum of the s[a], and
\* whenever predict scores an action, s[a] >= 1 and t >= 1, so that neither log(0) nor a
\* division by zero is raised
C15_ScoredOnlyAfterLearn ==
  /\ \A a \in Range(Acts) : (a \in DOMAIN m) <=> (s[a] >= 1)
  /\ t = s["X"] + s["Y"]
  /\ (ucall.op = "predict" /\ usedcb /\ ucall.actions # <<>>)
       => /\ uerr = "none"
          /\ \A a \in Scored(ucall.actions) : s[a] >= 1 /\ t >= 1
C15_Witness ==
  /\ ucall.op = "predict" /\ usedcb /\ uerr = "none"
  /\ Scored(ucall.actions) # {}
  /\ Scored(ucall.actions) # Range(ucall.actions)

\* a predict has called predict of every base learner once, in order
C16_PredictFansOut == asked = [i \in Idx |-> i]
\* a learn that finds its key calls learn of every base learner once, in order, with the
\* action that learner sampled for the key and the probability it gave that action
C16_LearnFansOut ==
  (pc = "idle" /\ call'.op = "learn" /\ err' # "KeyError")
    => /\ nfed' = nfed + M
       /\ DOMAIN fed' = Idx
       /\ \A i \in Idx : /\ fed'[i].learner = i
                          /\ fed'[i].action = base_actions[call'.key][i]
                          /\ fed'[i].probability = base_predicts[call'.key][i]
\* the weights change only in a learn whose base learners have all been fed
C16_FedBeforeWeights ==
  (ps' # ps \/ p_bars' # p_bars \/ rhos' # rhos \/ etas' # etas)
    => (call'.op = "learn" /\ nfed' = M * nlearn' /\ DOMAIN fed' = Idx)
C17_WeightsFrame ==
  /\ [](DOMAIN ps = Idx /\ DOMAIN p_bars = Idx /\ DOMAIN etas = Idx /\ DOMAIN rhos = Idx)
  /\ [][call'.op = "predict" => UNCHANGED <<ps, p_bars, etas, rhos>>]_vars
  /\ [][~UNCHANGED <<ps, p_bars, etas, rhos>> => call'.op = "learn"]_vars
  /\ [][(rcall'.op = "learn" /\ rcall' # rcall) => UNCHANGED <<cvars, uvars, evars>>]_vars
C17_Witness ==
  /\ call.op = "predict" /\ err = "none"
  /\ ps[1] # ps[2] /\ p_bars[1] # p_bars[2]
  /\ \E i \in Idx : rhos[i] # FInt(2 * M) /\ etas[i] # eta_init
  /\ rcall.op = "learn"

====
